---------------------------- MODULE Spec2Model ----------------------------
(***************************************************************************)
(* Model of src/skeleton-bot.js: the two bots pushed onto `bots`, each an  *)
(* object with one method action(world) called once per game tick.         *)
(*                                                                         *)
(* Numbers.  JavaScript numbers are IEEE doubles; here they are fixed      *)
(* point integers:                                                         *)
(*   - a length or a time is counted in thousandths (1 pixel = 1000);      *)
(*   - an angle is counted in thousandths of a degree (PI = 180000); one   *)
(*     thousandth also stands for the rounding error a double carries      *)
(*     after the escape sweep's repeated additions (see angleOffsets);     *)
(*   - the bullet speed `bs` is counted in ten-thousandths, so that the    *)
(*     code's floor 0.0001 is the integer 1.                               *)
(* A JavaScript value that may be null/undefined is a tuple: << >> for     *)
(* null/undefined and <<n>> for the number n.                              *)
(***************************************************************************)
EXTENDS Integers, Sequences, FiniteSets, TLC

VARIABLES
    pc,          \* "idle": between ticks; "returned": action(world) has returned
    turn,        \* index into `bots` of the bot that is followed: 1 or 2
    world,       \* << >> or <<w>>: the snapshot passed to the last call
    action,      \* << >> or <<a>>: the object the last call returned
    simpleMem,   \* this._memory of the first bot  (<< >> = not yet created)
    mem          \* this._memory of the second bot (<< >> = not yet created)

vars == <<pc, turn, world, action, simpleMem, mem>>

null == << >>
Num(n) == <<n>>
Val(v) == v[1]

(***************************************************************************)
(* Arithmetic helpers (Math.abs, Math.max, Math.hypot, Math.cos, ...)      *)
(***************************************************************************)
Abs(a) == IF a < 0 THEN -a ELSE a
Max(a, b) == IF a >= b THEN a ELSE b

\* Thousandths of a unit / thousandths of a degree.
Milli(n) == n * 1000
Deg(d) == d * 1000

PI == Deg(180)

RECURSIVE SqrtIter(_, _)
SqrtIter(n, r) ==
    LET s == (r + n \div r) \div 2
    IN  IF s >= r THEN r ELSE SqrtIter(n, s)

\* floor of the square root
Isqrt(n) ==
    IF n <= 0 THEN 0
    ELSE IF n < 4 THEN 1
    ELSE SqrtIter(n, IF n > 400000000 THEN 46340
                     ELSE IF n > 25000000 THEN 20000
                     ELSE IF n > 1000000 THEN 5000
                     ELSE IF n > 10000 THEN 1000
                     ELSE n \div 2)

\* the smallest power of ten k with m / k below 32000
RECURSIVE ScaleFor(_, _)
ScaleFor(m, k) == IF m \div k < 32000 THEN k ELSE ScaleFor(m, k * 10)

\* Math.hypot on fixed-point arguments; large arguments are scaled down by a
\* power of ten first so that the squares stay inside 32 bits.
Hypot(a, b) ==
    LET k == ScaleFor(Max(Abs(a), Abs(b)), 1)
        x == Abs(a) \div k
        y == Abs(b) \div k
    IN  k * Isqrt(x * x + y * y)

\* 1000 * sin(d degrees), d = 0..90
SinTab ==
    << 0, 17, 35, 52, 70, 87, 105, 122, 139, 156, 174, 191, 208, 225, 242,
       259, 276, 292, 309, 326, 342, 358, 375, 391, 407, 423, 438, 454, 469,
       485, 500, 515, 530, 545, 559, 574, 588, 602, 616, 629, 643, 656, 669,
       682, 695, 707, 719, 731, 743, 755, 766, 777, 788, 799, 809, 819, 829,
       839, 848, 857, 866, 875, 883, 891, 899, 906, 914, 921, 927, 934, 940,
       946, 951, 956, 961, 966, 970, 974, 978, 982, 985, 988, 990, 993, 995,
       996, 998, 999, 999, 1000, 1000 >>

\* sine and cosine of a whole number of degrees, times 1000
SinDeg(d) ==
    LET e == d % 360
    IN  IF e <= 90 THEN SinTab[e + 1]
        ELSE IF e <= 180 THEN SinTab[180 - e + 1]
        ELSE IF e <= 270 THEN -SinTab[e - 180 + 1]
        ELSE -SinTab[360 - e + 1]
CosDeg(d) == SinDeg(d + 90)

\* an angle rounded to the nearest whole degree
RoundDeg(a) == (a + 500) \div 1000

\* Math.sin / Math.cos of an angle, times 1000
sin(a) == SinDeg(RoundDeg(a))
cos(a) == CosDeg(RoundDeg(a))

\* the largest d in lo..hi whose direction is not past the vector (ax, ay),
\* both ax, ay >= 0 (the direction of d degrees is not past the vector when
\* their cross product is >= 0)
RECURSIVE AtanSearch(_, _, _, _)
AtanSearch(lo, hi, ay, ax) ==
    IF lo >= hi THEN lo
    ELSE LET mid == (lo + hi + 1) \div 2
         IN  IF CosDeg(mid) * ay - SinDeg(mid) * ax >= 0
             THEN AtanSearch(mid, hi, ay, ax)
             ELSE AtanSearch(lo, mid - 1, ay, ax)

\* Math.atan2(y, x), to the degree; Math.atan2(0, 0) is 0
atan2(y, x) ==
    IF x = 0 /\ y = 0 THEN 0
    ELSE LET q == IF y = 0 THEN 0
                  ELSE IF x = 0 THEN 90
                  ELSE AtanSearch(0, 90, Abs(y), Abs(x))
         IN  IF x >= 0 /\ y >= 0 THEN Deg(q)
             ELSE IF x < 0 /\ y >= 0 THEN Deg(180 - q)
             ELSE IF x < 0 THEN Deg(q - 180)
             ELSE Deg(-q)

\* an angle in radians, times 1000 (PI / 180 = 0.01745)
Radians(a) == (a * 1745) \div 100000

(***************************************************************************)
(* Host helpers of the world object (documented at lines 305-319)          *)
(***************************************************************************)
\* world.getDistanceToTarget(targetX, targetY): Euclidean distance
getDistanceToTarget(w, targetX, targetY) ==
    Hypot(Milli(targetX - w.self.x), Milli(targetY - w.self.y))

\* world.directionTo(targetX, targetY): angle to move toward the target
directionTo(w, targetX, targetY) ==
    atan2(targetY - w.self.y, targetX - w.self.x)

\* world.shootAt(targetX, targetY): angle to aim at the target
shootAt(w, targetX, targetY) ==
    atan2(targetY - w.self.y, targetX - w.self.x)

(***************************************************************************)
(* Second bot (lines 250-543): helpers declared inside action(world)       *)
(***************************************************************************)
centerX(w) == Milli(w.map.x) + Milli(w.map.width) \div 2
centerY(w) == Milli(w.map.y) + Milli(w.map.height) \div 2

\* the action object as first built: stay still, don't shoot, no shield
NewAction == [moveDirection |-> null, shoot |-> null, shield |-> FALSE]

\* the object `this._memory` is set to when it is missing
NewMemory == [lastDodgeTick |-> -1, facingDirection |-> Num(0)]

\* JavaScript's !v for a value that is null or a number
Falsy(v) == v = null \/ v = Num(0)

RECURSIVE normalizeAngle(_)
normalizeAngle(a) ==
    IF a > PI THEN normalizeAngle(a - PI * 2)
    ELSE IF a < -PI THEN normalizeAngle(a + PI * 2)
    ELSE a

canShootAtAngle(shootAngle, robotFacingAngle) ==
    IF robotFacingAngle = null THEN TRUE
    ELSE LET angleDiff == Abs(normalizeAngle(shootAngle - Val(robotFacingAngle)))
         IN  angleDiff <= PI \div 2

(***************************************************************************)
(* 1) Enhanced multi-bullet dodging system                                 *)
(***************************************************************************)
emergencyTimeThreshold == 15
wallBuffer == 30

baseTimeThreshold(w) == Milli(25 + Max(0, 8 - w.self.stats.speed) * 3)
baseDodgeDistance(w) == Milli(60 + w.self.stats.speed * 5)

\* bullet.speed || Math.hypot(bullet.vx, bullet.vy) || 0.0001, in
\* ten-thousandths
BulletSpeed(bullet) ==
    LET h == Hypot(bullet.vx * 10000, bullet.vy * 10000)
    IN  IF bullet.speed # 0 THEN bullet.speed * 10000
        ELSE IF h # 0 THEN h
        ELSE 1

\* Assess that lets a bullet with along = 0 through
AssessAlongZero(w, bullet) ==
    LET bs == BulletSpeed(bullet)
        ux == (bullet.vx * 10000000) \div bs
        uy == (bullet.vy * 10000000) \div bs
        rx == w.self.x - bullet.x
        ry == w.self.y - bullet.y
        along == rx * ux + ry * uy
        px == Milli(rx) - (ux * along) \div 1000
        py == Milli(ry) - (uy * along) \div 1000
        perpDist == Hypot(px, py)
        tti == (along \div bs) * 10000 + ((along % bs) * 10000) \div bs
        threatScore == perpDist + tti * 2
    IN  IF along < 0 THEN null
        ELSE << [bullet |-> bullet,
                 perpDist |-> perpDist,
                 tti |-> tti,
                 threatScore |-> threatScore,
                 bulletAngle |-> atan2(bullet.vy, bullet.vx),
                 along |-> along] >>

\* The callback of bullets.map: << >> for `return null`, else <<threat>>.
Assess(w, bullet) ==
    LET bs == BulletSpeed(bullet)
        ux == (bullet.vx * 10000000) \div bs
        uy == (bullet.vy * 10000000) \div bs
        rx == w.self.x - bullet.x
        ry == w.self.y - bullet.y
        along == rx * ux + ry * uy
        px == Milli(rx) - (ux * along) \div 1000
        py == Milli(ry) - (uy * along) \div 1000
        perpDist == Hypot(px, py)
        tti == (along \div bs) * 10000 + ((along % bs) * 10000) \div bs
        threatScore == perpDist + tti * 2
    IN  IF along <= 0 THEN null
        ELSE << [bullet |-> bullet,
                 perpDist |-> perpDist,
                 tti |-> tti,
                 threatScore |-> threatScore,
                 bulletAngle |-> atan2(bullet.vy, bullet.vx),
                 along |-> along] >>

\* bullets.map(...).filter(t => t !== null)
RECURSIVE MapFilter(_, _)
MapFilter(w, bullets) ==
    IF bullets = << >> THEN << >>
    ELSE Assess(w, Head(bullets)) \o MapFilter(w, Tail(bullets))

\* Array.prototype.sort is stable: an element goes after every element that
\* does not compare greater than it.
RECURSIVE InsertThreat(_, _)
InsertThreat(sorted, t) ==
    IF sorted = << >> THEN <<t>>
    ELSE IF Head(sorted).threatScore - t.threatScore <= 0
         THEN <<Head(sorted)>> \o InsertThreat(Tail(sorted), t)
         ELSE <<t>> \o sorted

\* threats.sort((a, b) => a.threatScore - b.threatScore)
RECURSIVE SortThreats(_)
SortThreats(ts) ==
    IF ts = << >> THEN << >>
    ELSE InsertThreat(SortThreats(SubSeq(ts, 1, Len(ts) - 1)), ts[Len(ts)])

\* threats left in the order of world.bullets
ThreatsUnsorted(w) == MapFilter(w, w.bullets)

Threats(w) == SortThreats(MapFilter(w, w.bullets))

\* threats.find(t => t.perpDist < baseDodgeDistance && t.tti < baseTimeThreshold)
RECURSIVE Find(_, _)
Find(w, ts) ==
    IF ts = << >> THEN null
    ELSE IF Head(ts).perpDist < baseDodgeDistance(w) /\ Head(ts).tti < baseTimeThreshold(w)
         THEN <<Head(ts)>>
         ELSE Find(w, Tail(ts))

PrimaryThreat(w) == Find(w, Threats(w))

\* The values angleOffset takes in
\*   for (angleOffset = -Math.PI/2; angleOffset <= Math.PI/2; angleOffset += Math.PI/6)
\* In doubles they are -90, -60.00000000000001, -30.00000000000001,
\* -1.27e-14, 29.999999999999986, 59.999999999999986 and 89.99999999999997
\* degrees; the next one, 120 degrees, ends the loop. Only the first is exact;
\* the rounding error of the others is one thousandth here.
\* the values a loop that ends before +90 degrees would take
angleOffsetsSix ==
    << -Deg(90), -Deg(60) - 1, -Deg(30) - 1, -1, Deg(30) - 1, Deg(60) - 1 >>

angleOffsets ==
    << -Deg(90), -Deg(60) - 1, -Deg(30) - 1, -1, Deg(30) - 1, Deg(60) - 1, Deg(90) - 1 >>

escapeX(w, escapeAngle) == Milli(w.self.x) + cos(escapeAngle) * 100
escapeY(w, escapeAngle) == Milli(w.self.y) + sin(escapeAngle) * 100

\* isValidEscape without the wall buffer on the right-hand side
isValidEscapeNoRightBuffer(w, escapeAngle) ==
    LET ex == escapeX(w, escapeAngle)
        ey == escapeY(w, escapeAngle)
    IN  /\ ex > Milli(w.map.x + wallBuffer)
        /\ ex < Milli(w.map.x + w.map.width)
        /\ ey > Milli(w.map.y + wallBuffer)
        /\ ey < Milli(w.map.y + w.map.height - wallBuffer)

isValidEscape(w, escapeAngle) ==
    LET ex == escapeX(w, escapeAngle)
        ey == escapeY(w, escapeAngle)
    IN  /\ ex > Milli(w.map.x + wallBuffer)
        /\ ex < Milli(w.map.x + w.map.width - wallBuffer)
        /\ ey > Milli(w.map.y + wallBuffer)
        /\ ey < Milli(w.map.y + w.map.height - wallBuffer)

\* the loop `for (const threat of ts)`, ts being threats.slice(0, 3)
RECURSIVE escapeScore(_, _, _)
escapeScore(w, escapeAngle, ts) ==
    IF ts = << >> THEN 0
    ELSE LET threat == Head(ts)
             futureX == Milli(w.self.x)
                          + ((cos(escapeAngle) * threat.tti) \div 1000) * w.self.stats.speed * 10
             futureY == Milli(w.self.y)
                          + ((sin(escapeAngle) * threat.tti) \div 1000) * w.self.stats.speed * 10
             futureDist == Hypot(futureX - Milli(threat.bullet.x),
                                 futureY - Milli(threat.bullet.y))
         IN  futureDist + escapeScore(w, escapeAngle, Tail(ts))

angleToCenter(w) == atan2(centerY(w) - Milli(w.self.y), centerX(w) - Milli(w.self.x))

\* the object pushed onto escapeVectors for a valid escapeAngle; toCenter is
\* angleToCenter, which is the same in every iteration
EscapeVector(w, threats, escapeAngle, toCenter) ==
    LET \* 50 / (1 + |normalizeAngle(escapeAngle - angleToCenter)|), angle in radians
        centerAlignment50 ==
            50000000 \div (1000 + Radians(Abs(normalizeAngle(escapeAngle - toCenter))))
    IN  [angle |-> escapeAngle,
         score |-> escapeScore(w, escapeAngle, threats) + centerAlignment50]

\* threats.slice(0, 3)
Top3(threats) == SubSeq(threats, 1, IF Len(threats) < 3 THEN Len(threats) ELSE 3)

\* the sweep loop from iteration i on: the escapeVectors it pushes
RECURSIVE SweepFrom(_, _, _, _, _)
SweepFrom(w, top, primaryThreat, toCenter, i) ==
    IF i > Len(angleOffsets) THEN << >>
    ELSE LET escapeAngle == primaryThreat.bulletAngle + angleOffsets[i]
         IN  (IF isValidEscape(w, escapeAngle)
              THEN <<EscapeVector(w, top, escapeAngle, toCenter)>>
              ELSE << >>)
             \o SweepFrom(w, top, primaryThreat, toCenter, i + 1)

Sweep(w, threats, primaryThreat, i) ==
    SweepFrom(w, Top3(threats), primaryThreat, angleToCenter(w), i)

RECURSIVE InsertEscape(_, _)
InsertEscape(sorted, e) ==
    IF sorted = << >> THEN <<e>>
    ELSE IF e.score - Head(sorted).score <= 0
         THEN <<Head(sorted)>> \o InsertEscape(Tail(sorted), e)
         ELSE <<e>> \o sorted

\* escapeVectors.sort((a, b) => b.score - a.score)
RECURSIVE SortEscapes(_)
SortEscapes(es) ==
    IF es = << >> THEN << >>
    ELSE InsertEscape(SortEscapes(SubSeq(es, 1, Len(es) - 1)), es[Len(es)])

\* escapeVectors after the sweep and the sort
EscapeVectorsFor(w, threats, primaryThreat) ==
    SortEscapes(Sweep(w, threats, primaryThreat, 1))

EscapeVectors(w) ==
    IF PrimaryThreat(w) = null THEN << >>
    ELSE EscapeVectorsFor(w, Threats(w), Val(PrimaryThreat(w)))

\* Dodge that raises the shield before it knows of an escape vector
DodgeShieldFirst(w, a) ==
    IF Len(w.bullets) > 0
    THEN LET threats == Threats(w)
             primaryThreat == Find(w, threats)
         IN  IF primaryThreat # null
             THEN LET escapeVectors == EscapeVectorsFor(w, threats, Val(primaryThreat))
                      shielded ==
                          [a EXCEPT !.shield =
                              IF w.self.canShield
                                 /\ Val(primaryThreat).tti < Milli(emergencyTimeThreshold)
                              THEN TRUE ELSE @]
                  IN  IF Len(escapeVectors) > 0
                      THEN [shielded EXCEPT !.moveDirection = Num(escapeVectors[1].angle)]
                      ELSE shielded
             ELSE a
    ELSE a

\* Dodge that wants more than one escape vector
DodgeNeedsTwo(w, a) ==
    IF Len(w.bullets) > 0
    THEN LET threats == Threats(w)
             primaryThreat == Find(w, threats)
         IN  IF primaryThreat # null
             THEN LET escapeVectors == EscapeVectorsFor(w, threats, Val(primaryThreat))
                  IN  IF Len(escapeVectors) > 1
                      THEN [a EXCEPT
                              !.moveDirection = Num(escapeVectors[1].angle),
                              !.shield = IF w.self.canShield
                                            /\ Val(primaryThreat).tti < Milli(emergencyTimeThreshold)
                                         THEN TRUE ELSE @]
                      ELSE a
             ELSE a
    ELSE a

\* Step 1 applied to the action a.
Dodge(w, a) ==
    IF Len(w.bullets) > 0
    THEN LET threats == Threats(w)
             primaryThreat == Find(w, threats)
         IN  IF primaryThreat # null
             THEN LET escapeVectors == EscapeVectorsFor(w, threats, Val(primaryThreat))
                  IN  IF Len(escapeVectors) > 0
                      THEN [a EXCEPT
                              !.moveDirection = Num(escapeVectors[1].angle),
                              !.shield = IF w.self.canShield
                                            /\ Val(primaryThreat).tti < Milli(emergencyTimeThreshold)
                                         THEN TRUE ELSE @]
                      ELSE a
             ELSE a
    ELSE a

(***************************************************************************)
(* 2) Target selection - just pick closest enemy                           *)
(***************************************************************************)
\* ClosestLoop that also takes an enemy as near as the closest so far
RECURSIVE ClosestLoopLast(_, _, _, _)
ClosestLoopLast(w, i, closestDist, target) ==
    IF i > Len(w.enemies) THEN target
    ELSE LET d == getDistanceToTarget(w, w.enemies[i].x, w.enemies[i].y)
         IN  IF closestDist = null \/ d <= Val(closestDist)
             THEN ClosestLoopLast(w, i + 1, Num(d), <<w.enemies[i]>>)
             ELSE ClosestLoopLast(w, i + 1, closestDist, target)

\* The loop over enemies from index i on, with the loop's two variables:
\* closestDist (<< >> for Infinity) and target (<< >> for null).
RECURSIVE ClosestLoop(_, _, _, _)
ClosestLoop(w, i, closestDist, target) ==
    IF i > Len(w.enemies) THEN target
    ELSE LET d == getDistanceToTarget(w, w.enemies[i].x, w.enemies[i].y)
         IN  IF closestDist = null \/ d < Val(closestDist)
             THEN ClosestLoop(w, i + 1, Num(d), <<w.enemies[i]>>)
             ELSE ClosestLoop(w, i + 1, closestDist, target)

Target(w) == IF Len(w.enemies) > 0 THEN ClosestLoop(w, 1, null, null) ELSE null

(***************************************************************************)
(* 3) Strategic positioning considering shooting constraints               *)
(* random is the outcome of Math.random() > 0.5, rounding the rounding of   *)
(* the sum on line 511                                                     *)
(***************************************************************************)
\* What lines 496-498 read from the host helpers for target tgt
TargetView(w, tgt) ==
    IF tgt = null THEN null
    ELSE LET target == Val(tgt)
         IN  <<[d |-> getDistanceToTarget(w, target.x, target.y),
                targetAngle |-> directionTo(w, target.x, target.y),
                shootAngle |-> shootAt(w, target.x, target.y)]>>

\* Line 511 is reached: Math.random() is called and the sum
\* targetAngle +/- Math.PI/2 is formed. view is TargetView of the target.
Repositions(w, a, view, facingDirection) ==
    /\ Falsy(a.moveDirection)
    /\ view # null
    /\ ~(Val(view).d < w.self.range * 600)
    /\ ~(Val(view).d > w.self.range * 900)
    /\ ~canShootAtAngle(Val(view).shootAngle, facingDirection)

\* The sum targetAngle +/- Math.PI/2 is rounded to a double. It is exact when
\* targetAngle is 0, when the two terms have the same magnitude, and when they
\* have opposite signs and PI/4 <= |targetAngle| <= PI (a difference of two
\* doubles within a factor of two of each other is exact). Otherwise the
\* result is either at most a quarter turn away from targetAngle (0) or one
\* unit beyond it (1); which of the two depends on the low bits of
\* targetAngle.
SumRounding(targetAngle, random) ==
    LET quarter == IF random THEN PI \div 2 ELSE -(PI \div 2)
        exact == \/ targetAngle = 0
                 \/ Abs(targetAngle) = PI \div 2
                 \/ /\ (targetAngle < 0) # (quarter < 0)
                    /\ PI \div 4 <= Abs(targetAngle)
                    /\ Abs(targetAngle) <= PI
    IN  IF exact THEN {0} ELSE {0, 1}

\* What is drawn inside a call: <<Math.random() > 0.5, rounding of the sum>>
\* where line 511 is reached, nothing otherwise (<<FALSE, 0>>).
Draws(w, a, view, facingDirection) ==
    IF Repositions(w, a, view, facingDirection)
    THEN {draw \in BOOLEAN \X {0, 1} :
              draw[2] \in SumRounding(Val(view).targetAngle, draw[1])}
    ELSE {<<FALSE, 0>>}

Position(w, a, tgt, facingDirection, random, rounding) ==
    IF Falsy(a.moveDirection) /\ tgt # null
    THEN LET target == Val(tgt)
             d == getDistanceToTarget(w, target.x, target.y)
             targetAngle == directionTo(w, target.x, target.y)
             shootAngle == shootAt(w, target.x, target.y)
             canShootTarget == canShootAtAngle(shootAngle, facingDirection)
         IN  IF d < w.self.range * 600
             THEN [a EXCEPT !.moveDirection = Num(targetAngle)]
             ELSE IF d > w.self.range * 900
             THEN [a EXCEPT !.moveDirection = Num(targetAngle)]
             ELSE IF ~canShootTarget
             THEN LET perpAngle == targetAngle + (IF random THEN PI \div 2 + rounding
                                                  ELSE -(PI \div 2) - rounding)
                  IN  [a EXCEPT !.moveDirection = Num(perpAngle)]
             ELSE a
    ELSE a

(***************************************************************************)
(* 5) Shooting - only when safe and in good position                       *)
(***************************************************************************)
\* Shoot that checks the arc against the heading this tick has just chosen
ShootNewFacing(w, a, tgt, facingDirection) ==
    IF tgt # null /\ w.self.canShoot
    THEN LET target == Val(tgt)
             d == getDistanceToTarget(w, target.x, target.y)
             shootAngle == shootAt(w, target.x, target.y)
             facing == IF a.moveDirection # null THEN a.moveDirection ELSE facingDirection
         IN  IF d <= Milli(w.self.range) /\ canShootAtAngle(shootAngle, facing)
             THEN [a EXCEPT !.shoot = Num(shootAngle)]
             ELSE a
    ELSE a

Shoot(w, a, tgt, facingDirection) ==
    IF tgt # null /\ w.self.canShoot
    THEN LET target == Val(tgt)
             d == getDistanceToTarget(w, target.x, target.y)
             shootAngle == shootAt(w, target.x, target.y)
         IN  IF d <= Milli(w.self.range) /\ canShootAtAngle(shootAngle, facingDirection)
             THEN [a EXCEPT !.shoot = Num(shootAngle)]
             ELSE a
    ELSE a

(***************************************************************************)
(* 6) Respect shooting animation lock                                      *)
(***************************************************************************)
\* AnimationLock without the 'recovering' state
AnimationLockNoRecovering(w, a) ==
    IF \/ w.self.shootingState = "preparing"
       \/ w.self.shootingState = "shooting"
    THEN [a EXCEPT !.moveDirection = null]
    ELSE a

AnimationLock(w, a) ==
    IF \/ w.self.shootingState = "preparing"
       \/ w.self.shootingState = "shooting"
       \/ w.self.shootingState = "recovering"
    THEN [a EXCEPT !.moveDirection = null]
    ELSE a

\* Steps 3, 5 and 6 applied to the action a that step 1 left, with the target
\* that step 2 selected.
Arbitrate(w, a, target, facingDirection, random, rounding) ==
    AnimationLock(w,
        Shoot(w, Position(w, a, target, facingDirection, random, rounding), target,
              facingDirection))

\* The object action(world) of the second bot returns when this._memory holds
\* facingDirection on entry (after the creation of a missing this._memory).
EnhancedResult(w, facingDirection, random, rounding) ==
    Arbitrate(w, Dodge(w, NewAction), Target(w), facingDirection, random, rounding)

(***************************************************************************)
(* 7) Update facing direction based on movement                            *)
(***************************************************************************)
UpdateFacing(m, a) ==
    IF a.moveDirection # null
    THEN [m EXCEPT !.facingDirection = a.moveDirection]
    ELSE m

(***************************************************************************)
(* First bot (lines 22-227)                                                *)
(***************************************************************************)
\* the object the first bot sets a missing `this._memory` to
NewSimpleMemory == [lastDodgeTick |-> -1]

timeThreshold(w) == Milli(30 + Max(0, 8 - w.self.stats.speed) * 2)

\* 1) Simple single bullet dodging: only bullets[0] is looked at
SimpleDodge(w, a) ==
    IF Len(w.bullets) > 0 /\ Assess(w, w.bullets[1]) # null
    THEN LET t == Val(Assess(w, w.bullets[1]))
             dodgeA == t.bulletAngle + PI \div 2
             dodgeB == t.bulletAngle - PI \div 2
             diffA == Abs(normalizeAngle(dodgeA - angleToCenter(w)))
             diffB == Abs(normalizeAngle(dodgeB - angleToCenter(w)))
         IN  IF t.perpDist < Milli(70) /\ t.tti < timeThreshold(w)
             THEN [a EXCEPT !.moveDirection = Num(IF diffA <= diffB THEN dodgeA ELSE dodgeB),
                            !.shield = IF w.self.canShield /\ t.tti < Milli(12)
                                       THEN TRUE ELSE @]
             ELSE a
    ELSE a

\* 3) Simple shoot and bounce strategy
SimplePosition(w, a, tgt) ==
    IF Falsy(a.moveDirection) /\ tgt # null
    THEN LET target == Val(tgt)
             d == getDistanceToTarget(w, target.x, target.y)
         IN  IF d < w.self.range * 600
             THEN [a EXCEPT !.moveDirection = Num(directionTo(w, target.x, target.y))]
             ELSE IF d > w.self.range * 900
             THEN [a EXCEPT !.moveDirection = Num(directionTo(w, target.x, target.y))]
             ELSE a
    ELSE a

\* 5) Shooting
SimpleShoot(w, a, tgt) ==
    IF tgt # null /\ w.self.canShoot
    THEN LET target == Val(tgt)
             d == getDistanceToTarget(w, target.x, target.y)
         IN  IF d <= Milli(w.self.range)
             THEN [a EXCEPT !.shoot = Num(shootAt(w, target.x, target.y))]
             ELSE a
    ELSE a

\* the object action(world) of the first bot returns
SimpleResult(w) ==
    LET target == Target(w)
    IN  AnimationLock(w,
            SimpleShoot(w, SimplePosition(w, SimpleDodge(w, NewAction), target), target))

(***************************************************************************)
(* The snapshots the host passes in                                        *)
(***************************************************************************)
MaxBullets == 2
MaxEnemies == 2

\* Arena, own position and stats.
Setups ==
    { \* centre of a 300 x 300 arena
      [map |-> [x |-> 0, y |-> 0, width |-> 300, height |-> 300],
       x |-> 150, y |-> 150, speed |-> 5, range |-> 100],
      \* in a corridor whose origin is not (0, 0): an escape point is inside
      \* the wall buffer only for headings close to 0
      [map |-> [x |-> 50, y |-> 20, width |-> 250, height |-> 100],
       x |-> 100, y |-> 70, speed |-> 9, range |-> 60],
      \* on the left edge of an arena too narrow for any escape point
      [map |-> [x |-> 0, y |-> 0, width |-> 120, height |-> 150],
       x |-> 0, y |-> 75, speed |-> 5, range |-> 150] }

\* shootingState, canShoot, canShield: every shooting state, and with the idle
\* state every combination of the two flags
SelfFlags ==
    { [shootingState |-> "idle", canShoot |-> cs, canShield |-> ch] :
        cs \in BOOLEAN, ch \in BOOLEAN }
    \cup { [shootingState |-> st, canShoot |-> TRUE, canShield |-> TRUE] :
             st \in {"preparing", "shooting", "recovering"} }

\* Bullets, placed relative to the robot (dx, dy).
BulletKinds ==
    << \* on a diagonal, passing 20 away: perpDist 20, tti 30
       [dx |-> -106, dy |-> -108, vx |-> 3, vy |-> 4, speed |-> 5],
       \* straight at the robot along +y: perpDist 0, tti 10; listed after
       \* the less dangerous diagonal bullet
       [dx |-> 0, dy |-> -50, vx |-> 0, vy |-> 5, speed |-> 5],
       \* no velocity, no speed, at the robot's own position
       [dx |-> 0, dy |-> 0, vx |-> 0, vy |-> 0, speed |-> 0],
       \* already past the robot, moving away; speed field missing (0)
       [dx |-> 30, dy |-> 40, vx |-> 3, vy |-> 4, speed |-> 0] >>

\* Enemies, placed relative to the robot: 70 away (70% of a range of 100,
\* beyond a range of 60, 47% of a range of 150) or at the robot's position.
EnemyKinds ==
    << [dx |-> 70, dy |-> 0],      \* bearing 0
       [dx |-> 0, dy |-> -70],     \* bearing -90, as far as the first
       [dx |-> -70, dy |-> 2],     \* bearing 179, a little farther
       [dx |-> 0, dy |-> 0] >>     \* at the robot's own position

\* the sequences of at most n distinct indices of 1..k
RECURSIVE Picks(_, _)
Picks(k, n) ==
    IF n = 0 THEN { << >> }
    ELSE Picks(k, n - 1)
           \cup { Append(p, i) : p \in { q \in Picks(k, n - 1) : Len(q) = n - 1 }, i \in 1..k }

Distinct(p) == \A i, j \in 1..Len(p) : i # j => p[i] # p[j]
Increasing(p) == \A i, j \in 1..Len(p) : i < j => p[i] < p[j]

\* bullets: every choice of at most MaxBullets kinds, in the order of BulletKinds
BulletPicks == { p \in Picks(Len(BulletKinds), MaxBullets) : Increasing(p) }
\* enemies: every choice of at most MaxEnemies kinds, in the order of
\* EnemyKinds, and the two enemies at the same distance in the other order too
EnemyPicks ==
    { p \in Picks(Len(EnemyKinds), MaxEnemies) : Increasing(p) }
      \cup { p \in { <<2, 1>> } : Len(p) <= MaxEnemies }

MakeWorld(s, f, bp, ep) ==
    [self |-> [x |-> s.x, y |-> s.y,
               canShoot |-> f.canShoot, canShield |-> f.canShield,
               shootingState |-> f.shootingState,
               stats |-> [speed |-> s.speed], range |-> s.range],
     enemies |-> [i \in 1..Len(ep) |->
                    [x |-> s.x + EnemyKinds[ep[i]].dx, y |-> s.y + EnemyKinds[ep[i]].dy]],
     bullets |-> [i \in 1..Len(bp) |->
                    [x |-> s.x + BulletKinds[bp[i]].dx, y |-> s.y + BulletKinds[bp[i]].dy,
                     vx |-> BulletKinds[bp[i]].vx, vy |-> BulletKinds[bp[i]].vy,
                     speed |-> BulletKinds[bp[i]].speed]],
     map |-> s.map]

Worlds ==
    { MakeWorld(s, f, bp, ep) :
        s \in Setups, f \in SelfFlags, bp \in BulletPicks, ep \in EnemyPicks }

(***************************************************************************)
(* The state machine.  The two bots are separate objects, each with its own *)
(* this._memory, and neither reads anything of the other: a behaviour      *)
(* follows one of them, bots[turn], tick after tick.                       *)
(***************************************************************************)
\* Steps 1 and 2 read the snapshot only, not this._memory: what they leave
\* for each snapshot, computed once.
DodgeOf == [w \in Worlds |-> Dodge(w, NewAction)]
TargetOf == [w \in Worlds |-> Target(w)]
TargetViewOf == [w \in Worlds |-> TargetView(w, TargetOf[w])]

Init ==
    /\ pc = "idle"
    /\ turn \in {1, 2}
    /\ world = null
    /\ action = null
    /\ simpleMem = null
    /\ mem = null

\* The host calls action(world) of the first bot.
SimpleAction(w) ==
    /\ pc = "idle"
    /\ turn = 1
    /\ pc' = "returned"
    /\ world' = <<w>>
    /\ simpleMem' = IF simpleMem = null THEN <<NewSimpleMemory>> ELSE simpleMem
    /\ action' = <<SimpleResult(w)>>
    /\ UNCHANGED <<turn, mem>>

\* Steps 3 to 7 of a call of the second bot with snapshot w, after steps 1
\* and 2 left dodged and target: they read and write this._memory.
EnhancedSteps(w, dodged, target, view) ==
    LET m == IF mem = null THEN NewMemory ELSE Val(mem)
    IN  \E draw \in Draws(w, dodged, view, m.facingDirection) :
            LET a == Arbitrate(w, dodged, target, m.facingDirection, draw[1], draw[2])
            IN  /\ action' = <<a>>
                /\ mem' = <<UpdateFacing(m, a)>>

\* The host calls action(world) of the second bot.
EnhancedAction(w) ==
    /\ pc = "idle"
    /\ turn = 2
    /\ pc' = "returned"
    /\ world' = <<w>>
    /\ EnhancedSteps(w, DodgeOf[w], TargetOf[w], TargetViewOf[w])
    /\ UNCHANGED <<turn, simpleMem>>

\* The host takes the returned action; the next tick brings a fresh snapshot.
HostTakesAction ==
    /\ pc = "returned"
    /\ pc' = "idle"
    /\ world' = null
    /\ action' = null
    /\ UNCHANGED <<turn, simpleMem, mem>>

Next ==
    \/ pc = "idle" /\ turn = 1 /\ \E w \in Worlds : SimpleAction(w)
    \/ pc = "idle" /\ turn = 2 /\ \E w \in Worlds : EnhancedAction(w)
    \/ HostTakesAction

Spec == Init /\ [][Next]_vars

(***************************************************************************)
(* Properties                                                              *)
(***************************************************************************)
\* the snapshot and the action of the call that has just returned
W == Val(world)
A == Val(action)

Returned(bot) == pc = "returned" /\ turn = bot

Busy(w) == w.self.shootingState \in {"preparing", "shooting", "recovering"}
Idle(w) == w.self.shootingState = "idle"

\* what step 1 of the second bot did to the fresh action
Evasion(w) == Dodge(w, NewAction)

\* the angle between two directions, 0..180 degrees
AngleBetween(a, b) ==
    LET d == (a - b) % Deg(360)
    IN  IF d > Deg(180) THEN Deg(360) - d ELSE d

\* the point 100 ahead along heading h is strictly inside the arena shrunk by
\* 30 on every side
InsideBuffer(w, h) ==
    LET px == Milli(w.self.x) + 100 * cos(h)
        py == Milli(w.self.y) + 100 * sin(h)
    IN  /\ px > Milli(w.map.x + 30)
        /\ px < Milli(w.map.x + w.map.width - 30)
        /\ py > Milli(w.map.y + 30)
        /\ py < Milli(w.map.y + w.map.height - 30)

\* the square of the distance from the robot to enemy i
Dist2(w, i) ==
    (w.enemies[i].x - w.self.x) * (w.enemies[i].x - w.self.x)
      + (w.enemies[i].y - w.self.y) * (w.enemies[i].y - w.self.y)

\* the index of the nearest enemy, the first one among equally near ones
Nearest(w) ==
    CHOOSE i \in 1..Len(w.enemies) :
        \A j \in 1..Len(w.enemies) :
            /\ Dist2(w, j) >= Dist2(w, i)
            /\ j < i => Dist2(w, j) > Dist2(w, i)

\* bullet i of w comes straight at the robot (perpDist = 0) and its time to
\* impact is below the time budget 25 + 3 * max(0, 8 - speedStat)
StraightAndSoon(w, i) ==
    LET t == Assess(w, w.bullets[i])
    IN  /\ t # null
        /\ Val(t).perpDist = 0
        /\ Val(t).tti < Milli(25 + 3 * Max(0, 8 - w.self.stats.speed))

\* some heading of the sweep around the primary threat passes the wall filter
SomeEscapeInside(w) ==
    LET p == PrimaryThreat(w)
    IN  /\ p # null
        /\ \E k \in 1..Len(angleOffsets) :
               InsideBuffer(w, Val(p).bulletAngle + angleOffsets[k])

\* there is a primary threat and no heading of the sweep passes the wall filter
NoEscapeInside(w) ==
    LET p == PrimaryThreat(w)
    IN  /\ p # null
        /\ \A k \in 1..Len(angleOffsets) :
               ~InsideBuffer(w, Val(p).bulletAngle + angleOffsets[k])

(***************************************************************************)
(* C1.  Whenever shootingState is 'preparing', 'shooting' or 'recovering', *)
(* the returned action has moveDirection = null, whatever evasion or       *)
(* positioning computed (both bots).                                       *)
(***************************************************************************)
C1_BusyHolds ==
    pc = "returned" /\ Busy(W) => A.moveDirection = null

\* a busy tick of the second bot in which evasion had chosen a heading
C1_Witness ==
    /\ Returned(2) /\ Busy(W)
    /\ Evasion(W).moveDirection # null
    /\ Target(W) # null
    /\ A.moveDirection = null

(***************************************************************************)
(* C2.  When evasion selected an escape heading (any value, 0 included)    *)
(* and a target exists, positioning does not change moveDirection: with an *)
(* idle shootingState the returned moveDirection is the escape heading.    *)
(***************************************************************************)
C2_EvasionSuppressesPositioning ==
    (Returned(2) /\ Idle(W) /\ Target(W) # null)
        => LET e == Evasion(W)
           IN  e.moveDirection # null => A.moveDirection = e.moveDirection

(***************************************************************************)
(* C3.  As claimed: for a bullet with perpDist = 0 and tti below the time  *)
(* budget the returned moveDirection is never null.                        *)
(***************************************************************************)
C3_AlwaysDodges ==
    (Returned(2) /\ \E i \in 1..Len(W.bullets) : StraightAndSoon(W, i))
        => A.moveDirection # null

(***************************************************************************)
(* C3, amended.  For a bullet with perpDist = 0 and tti below the time     *)
(* budget, the returned moveDirection is not null when shootingState is    *)
(* idle and some heading of the sweep around the primary threat passes the *)
(* wall filter.                                                            *)
(***************************************************************************)
C3_DodgesWhenPossible ==
    (/\ Returned(2) /\ Idle(W)
     /\ \E i \in 1..Len(W.bullets) : StraightAndSoon(W, i)
     /\ SomeEscapeInside(W))
        => A.moveDirection # null

\* such a tick where exactly one heading of the sweep passes the wall filter
C3_Witness ==
    /\ Returned(2) /\ Idle(W)
    /\ \E i \in 1..Len(W.bullets) : StraightAndSoon(W, i)
    /\ SomeEscapeInside(W)
    /\ Len(EscapeVectors(W)) = 1
    /\ A.moveDirection # null

(***************************************************************************)
(* C4.  The heading evasion writes has its point 100 ahead strictly inside *)
(* the arena shrunk by 30 on every side; if no heading of the sweep has,   *)
(* evasion leaves moveDirection and shield as they were; and without a     *)
(* target an idle tick returns exactly what evasion wrote.                 *)
(***************************************************************************)
C4_EscapeInsideBuffer ==
    Returned(2) =>
        LET e == Evasion(W)
        IN  /\ e.moveDirection # null => InsideBuffer(W, Val(e.moveDirection))
            /\ NoEscapeInside(W) => (e = NewAction /\ A.shield = FALSE)
            /\ (Idle(W) /\ Target(W) = null) => A.moveDirection = e.moveDirection

\* evasion chose a heading while other headings of the sweep were outside, in
\* an arena whose origin is not (0, 0)
C4_Witness ==
    /\ Returned(2) /\ Idle(W) /\ Target(W) = null
    /\ W.map.x # 0
    /\ Evasion(W).moveDirection # null
    /\ A.moveDirection = Evasion(W).moveDirection
    /\ \E k \in 1..Len(angleOffsets) :
           ~InsideBuffer(W, Val(PrimaryThreat(W)).bulletAngle + angleOffsets[k])

\* the aim bearing to the nearest enemy, and whether that enemy is in range
AimBearing(w) ==
    LET n == Nearest(w)
    IN  shootAt(w, w.enemies[n].x, w.enemies[n].y)
InRange(w) == Dist2(w, Nearest(w)) <= w.self.range * w.self.range

\* lastFacingHeading: the facing direction the second bot holds (<< >>: none)
FacingOf(m) == IF m = null THEN null ELSE Val(m).facingDirection

\* a call of the second bot's action() is the step from here
EnhancedCall == pc = "idle" /\ turn = 2

(***************************************************************************)
(* C5.  In a tick of the second bot shoot is set only if a target exists,  *)
(* canShoot is true, the target is at most `range` away and the aim        *)
(* bearing is within 90 degrees of the facing direction carried into the   *)
(* tick (not of the moveDirection this tick returns); shoot is then the    *)
(* aim bearing to the nearest enemy. Once a facing direction is carried    *)
(* in, shoot is set whenever the four conditions hold.                     *)
(***************************************************************************)
C5_AimOnlyInArc ==
    [][EnhancedCall =>
        LET w == Val(world')
            a == Val(action')
            allowed == /\ Len(w.enemies) > 0
                       /\ w.self.canShoot
                       /\ InRange(w)
                       /\ mem # null =>
                            AngleBetween(AimBearing(w), Val(FacingOf(mem))) <= Deg(90)
        IN  /\ a.shoot # null => (allowed /\ a.shoot = Num(AimBearing(w)))
            /\ (mem # null /\ allowed) => a.shoot # null]_vars

\* shoot was set with the aim bearing equal to a facing direction that an
\* earlier tick had left (this tick returned no moveDirection)
C5_Witness ==
    /\ Returned(2)
    /\ A.moveDirection = null
    /\ A.shoot # null
    /\ A.shoot = FacingOf(mem)
    /\ A.shoot # Num(0)

(***************************************************************************)
(* C6.  As claimed: while no facing direction is recorded every bearing    *)
(* is permitted: in the first tick of the second bot, with a target in     *)
(* range and canShoot true, shoot is set.                                  *)
(***************************************************************************)
C6_FirstTickAllBearings ==
    [][(EnhancedCall /\ mem = null) =>
        LET w == Val(world')
            a == Val(action')
        IN  (Len(w.enemies) > 0 /\ w.self.canShoot /\ InRange(w)) => a.shoot # null]_vars

(***************************************************************************)
(* C7.  The returned shield is TRUE exactly when canShield is true, there  *)
(* is a primary threat with tti below 15 and some heading of the sweep     *)
(* passes the wall filter (evasion selects a heading).                     *)
(***************************************************************************)
C7_ShieldIffEmergency ==
    Returned(2) =>
        LET p == PrimaryThreat(W)
        IN  A.shield = TRUE <=>
                /\ W.self.canShield
                /\ p # null
                /\ Val(p).tti < Milli(15)
                /\ \E k \in 1..Len(angleOffsets) :
                       InsideBuffer(W, Val(p).bulletAngle + angleOffsets[k])

\* the shield was raised for a primary threat 10 ticks away
C7_Witness ==
    /\ Returned(2)
    /\ A.shield = TRUE
    /\ W.self.canShield
    /\ Val(PrimaryThreat(W)).tti = Milli(10)

(***************************************************************************)
(* C8.  The target is null when enemies is empty and otherwise the enemy   *)
(* at the smallest distance, the first one in list order among equally     *)
(* near ones, whatever the bullets are and whatever evasion set; a shoot   *)
(* that is set is the aim bearing to that enemy.                           *)
(***************************************************************************)
C8_NearestFirst ==
    pc = "returned" =>
        /\ Len(W.enemies) = 0 => Target(W) = null
        /\ Len(W.enemies) > 0 => Target(W) = <<W.enemies[Nearest(W)]>>
        /\ A.shoot # null => (Len(W.enemies) > 0 /\ A.shoot = Num(AimBearing(W)))

\* two enemies at the same distance in different directions, bullets present
\* and a heading chosen by evasion: the first enemy is shot at
C8_Witness ==
    /\ Returned(2)
    /\ Len(W.enemies) = 2
    /\ Dist2(W, 1) = Dist2(W, 2)
    /\ shootAt(W, W.enemies[1].x, W.enemies[1].y) # shootAt(W, W.enemies[2].x, W.enemies[2].y)
    /\ Evasion(W).moveDirection # null
    /\ A.shoot = Num(shootAt(W, W.enemies[1].x, W.enemies[1].y))

(***************************************************************************)
(* C9.  Whatever the snapshot, degenerate ones included (a bullet with no   *)
(* velocity, an enemy at the robot's own position, the robot on the arena  *)
(* edge), a tick returns an action whose moveDirection is null or a        *)
(* number, whose shoot is undefined or a number and whose shield is a      *)
(* boolean; and a bullet without velocity and speed is never a threat.     *)
(***************************************************************************)
IsNullOrNumber(v) == v = null \/ (Len(v) = 1 /\ Val(v) \in Int)

ZeroVelocity(bullet) == bullet.vx = 0 /\ bullet.vy = 0 /\ bullet.speed = 0

C9_Total ==
    pc = "returned" =>
          /\ world # null /\ action # null
          /\ IsNullOrNumber(A.moveDirection)
          /\ IsNullOrNumber(A.shoot)
          /\ A.shield \in BOOLEAN
          /\ \A i \in 1..Len(W.bullets) :
                ZeroVelocity(W.bullets[i]) => Assess(W, W.bullets[i]) = null
          /\ LET threats == Threats(W)
             IN  \A k \in 1..Len(threats) : ~ZeroVelocity(threats[k].bullet)

\* a tick on the arena edge with a zero-velocity bullet and an enemy both at
\* the robot's own position
C9_Witness ==
    /\ Returned(2)
    /\ W.self.x = W.map.x
    /\ \E i \in 1..Len(W.bullets) :
          /\ ZeroVelocity(W.bullets[i])
          /\ W.bullets[i].x = W.self.x /\ W.bullets[i].y = W.self.y
    /\ \E j \in 1..Len(W.enemies) :
          W.enemies[j].x = W.self.x /\ W.enemies[j].y = W.self.y
    /\ A.moveDirection # null

(***************************************************************************)
(* C10.  As claimed: after each tick of the second bot the facing          *)
(* direction is the returned moveDirection if that is not null and         *)
(* otherwise what it was before the tick; nothing else writes it.          *)
(***************************************************************************)
C10_FacingFollowsMove ==
    [][/\ EnhancedCall =>
            FacingOf(mem') = IF Val(action').moveDirection # null
                             THEN Val(action').moveDirection
                             ELSE FacingOf(mem)
       /\ ~EnhancedCall => mem' = mem]_vars


\* the sign of `along` for bullets[i]: bs is positive, so it is the sign of
\* (self - bullet) . (vx, vy)
AlongSign(w, i) ==
    (w.self.x - w.bullets[i].x) * w.bullets[i].vx
      + (w.self.y - w.bullets[i].y) * w.bullets[i].vy

\* the danger score perpDist + 2 * tti of an assessed bullet
Danger(t) == t.perpDist + 2 * t.tti

\* bullets[i] comes toward the robot, close enough and soon enough
Qualifies(w, i) ==
    LET t == Assess(w, w.bullets[i])
    IN  /\ AlongSign(w, i) > 0
        /\ t # null
        /\ Val(t).perpDist < Milli(60 + 5 * w.self.stats.speed)
        /\ Val(t).tti < Milli(25 + 3 * Max(0, 8 - w.self.stats.speed))

(***************************************************************************)
(* C11.  A bullet is assessed as a threat exactly when along > 0. The      *)
(* primary threat is a bullet with along > 0, perpDist < 60 + 5 * speed    *)
(* and tti < 25 + 3 * max(0, 8 - speed), and no bullet meeting the three   *)
(* conditions has a strictly lower danger score perpDist + 2 * tti. When   *)
(* no bullet meets them there is no primary threat and evasion leaves the  *)
(* action as it was.                                                       *)
(***************************************************************************)
C11_PrimaryIsMostDangerous ==
    (Returned(2) /\ Len(W.bullets) > 0) =>
        LET p == PrimaryThreat(W)
            n == Len(W.bullets)
        IN  /\ \A i \in 1..n : AlongSign(W, i) > 0 <=> Assess(W, W.bullets[i]) # null
            /\ p # null =>
                 /\ \E i \in 1..n : Qualifies(W, i) /\ p = Assess(W, W.bullets[i])
                 /\ \A j \in 1..n :
                       Qualifies(W, j) =>
                           Danger(Val(Assess(W, W.bullets[j]))) >= Danger(Val(p))
            /\ p = null =>
                 /\ \A i \in 1..n : ~Qualifies(W, i)
                 /\ Evasion(W) = NewAction

\* two bullets meet the conditions, the second in the list is the more
\* dangerous one and is the primary threat
C11_Witness ==
    /\ Returned(2) /\ Idle(W)
    /\ Len(W.bullets) = 2
    /\ Qualifies(W, 1) /\ Qualifies(W, 2)
    /\ Danger(Val(Assess(W, W.bullets[1]))) > Danger(Val(Assess(W, W.bullets[2])))
    /\ PrimaryThreat(W) = Assess(W, W.bullets[2])
    /\ A.moveDirection # null

\* the bearing from the robot to the nearest enemy
TargetBearing(w) ==
    LET n == Nearest(w)
    IN  directionTo(w, w.enemies[n].x, w.enemies[n].y)

\* the nearest enemy is closer than 60% of the range, or farther than 90%
Below60(w) == Dist2(w, Nearest(w)) * 25 < 9 * w.self.range * w.self.range
Above90(w) == Dist2(w, Nearest(w)) * 100 > 81 * w.self.range * w.self.range

\* heading h is the bearing t turned by 90 degrees to either side, up to the
\* rounding of the sum
Perpendicular(h, t) == Abs(AngleBetween(h, t) - Deg(90)) <= 1

\* the moveDirection the positioning rule asks for, given whether the aim
\* bearing counts as within the forward arc
FollowsPositioningRule(w, a, inArc) ==
    IF Below60(w) \/ Above90(w)
    THEN a.moveDirection = Num(TargetBearing(w))
    ELSE IF inArc
    THEN a.moveDirection = null
    ELSE a.moveDirection # null /\ Perpendicular(Val(a.moveDirection), TargetBearing(w))

(***************************************************************************)
(* C12.  As claimed: in an idle tick of the second bot in which evasion    *)
(* set no heading and a target exists, the returned moveDirection is the   *)
(* bearing to the target when it is closer than 60% or farther than 90%    *)
(* of the range; within the band it is unset when the aim bearing is       *)
(* within 90 degrees of the facing direction carried into the tick (every  *)
(* bearing is, while none is recorded) and the target bearing turned by    *)
(* 90 degrees otherwise.                                                   *)
(***************************************************************************)
C12_PositioningRule ==
    [][EnhancedCall =>
        LET w == Val(world')
            a == Val(action')
        IN  (Idle(w) /\ Len(w.enemies) > 0 /\ Evasion(w).moveDirection = null) =>
                FollowsPositioningRule(w, a,
                    mem = null \/ AngleBetween(AimBearing(w), Val(FacingOf(mem))) <= Deg(90))]_vars

\* the escape headings the sweep tries around the primary threat's bullet
\* heading, before isValidEscape is asked
Candidates(w) ==
    [i \in 1..Len(angleOffsets) |-> Val(PrimaryThreat(w)).bulletAngle + angleOffsets[i]]

\* heading h is entered in the list ev of escape vectors
IsEscapeVector(ev, h) == \E e \in 1..Len(ev) : Abs(ev[e].angle - h) <= 1

(***************************************************************************)
(* C13.  As claimed: when there is a primary threat the sweep tries        *)
(* exactly six escape headings.                                            *)
(***************************************************************************)
C13_SixCandidates ==
    (Returned(2) /\ PrimaryThreat(W) # null) => Len(Candidates(W)) = 6

(***************************************************************************)
(* C13, amended.  When there is a primary threat the sweep tries exactly   *)
(* seven escape headings: the bullet heading turned by -90, -60, -30, 0,   *)
(* 30, 60 and 90 degrees (up to rounding of the accumulated offset), both  *)
(* ends included. Each of the seven whose projected point is inside the    *)
(* buffered arena is entered in the list of escape vectors, and nothing    *)
(* else is.                                                                *)
(***************************************************************************)
C13_SevenCandidates ==
    (Returned(2) /\ PrimaryThreat(W) # null) =>
        LET b == Val(PrimaryThreat(W)).bulletAngle
            c == Candidates(W)
            ev == EscapeVectors(W)
        IN  /\ Len(c) = 7
            /\ \A k \in 1..7 : Abs(c[k] - (b + (k - 4) * Deg(30))) <= 1
            /\ \A k \in -3..3 :
                  LET h == b + k * Deg(30)
                  IN  /\ (\A r \in -1..1 : InsideBuffer(W, h + r)) => IsEscapeVector(ev, h)
                      /\ (\A r \in -1..1 : ~InsideBuffer(W, h + r)) => ~IsEscapeVector(ev, h)
            /\ \A e \in 1..Len(ev) :
                  \E k \in -3..3 : Abs(ev[e].angle - (b + k * Deg(30))) <= 1

\* all seven headings pass the wall filter, the one at +90 degrees included
C13_Witness ==
    /\ Returned(2) /\ Idle(W)
    /\ PrimaryThreat(W) # null
    /\ LET ev == EscapeVectors(W)
       IN  /\ Len(ev) = 7
           /\ IsEscapeVector(ev, Val(PrimaryThreat(W)).bulletAngle + Deg(90))
    /\ A.moveDirection # null

\* this tick of the second bot repositioned: idle, no evasion heading, the
\* target inside the 60-90% band, and a moveDirection returned all the same
Repositioned ==
    /\ Returned(2) /\ Idle(W)
    /\ Len(W.enemies) > 0
    /\ DodgeOf[W].moveDirection = null
    /\ ~Below60(W) /\ ~Above90(W)
    /\ A.moveDirection # null

(***************************************************************************)
(* C14.  As claimed: after an idle tick that repositioned perpendicular    *)
(* to the target, the facing direction is the returned heading, and a      *)
(* next tick with the same snapshot (movement and aim bearing unchanged    *)
(* and equal) passes the forward-arc check and does not reposition again.  *)
(***************************************************************************)
C14_RepositionRestoresArc ==
    Repositioned =>
        /\ FacingOf(mem) = A.moveDirection
        /\ TargetBearing(W) = AimBearing(W) =>
             /\ canShootAtAngle(AimBearing(W), FacingOf(mem))
             /\ ~Repositions(W, DodgeOf[W], TargetViewOf[W], FacingOf(mem))
             /\ \A random \in BOOLEAN, rounding \in {0, 1} :
                   Arbitrate(W, DodgeOf[W], TargetOf[W], FacingOf(mem), random,
                             rounding).moveDirection = null

=============================================================================
